---------------------------- MODULE Spec2Model ----------------------------
(***************************************************************************)
(* Model of the inspect service: the request queue (lib/queue.js), the     *)
(* proxy pool scheduler (lib/proxy_pool_manager.js), the session fleet     *)
(* supervisor (lib/bot_controller.js) and the upstream session (class Bot, *)
(* second half of lib/logger.js), wired as in the entry script             *)
(* (unnamed/part_000).                                                     *)
(*                                                                         *)
(* Scheduling follows the Node.js event loop: a macro-task (timer, network *)
(* event, HTTP request) runs to completion, then the promise reactions it  *)
(* queued run one by one in FIFO order (variable microtasks); no new       *)
(* macro-task starts while a reaction is pending.  Wall-clock time is      *)
(* abstracted: an armed timer is a flag and fires at any later moment,     *)
(* except where the code's arithmetic orders two timers.                   *)
(*                                                                         *)
(* Group ids are 1-based here (the code's are 0-based); 0 stands for       *)
(* "no group", and for the JavaScript values false / null / undefined in   *)
(* the numeric fields of a session.                                        *)
(***************************************************************************)
EXTENDS Integers, Sequences, FiniteSets, TLC

(***************************************************************************)
(* Bounds of the model.                                                    *)
(***************************************************************************)
NumAccounts == 3          \* CONFIG.logins.length
MaxJobs == 2              \* queue entries created over a run
MaxFaults == 1            \* steamClient errors and GC disconnects over a run
MaxTimeouts == 2          \* TTL expiries and GC inspect timeouts over a run
MaxLoginFaults == 2       \* steamClient errors over a run of SpecLogin

(***************************************************************************)
(* Configuration values.                                                   *)
(***************************************************************************)
NumGroups == 2            \* lines of the proxy file
maxOnlineBots == 2        \* CONFIG.max_online_bots
MaxRequestsPerProxyConfig == 1 \* CONFIG.proxy_pool.max_requests_per_proxy, where it is fixed
requestCooldown == 100    \* CONFIG.proxy_pool.request_cooldown
MaxRetriesConfig == 1     \* CONFIG.proxy_pool.max_login_retries
MaxRetriesBackoff == 4    \* max_login_retries in SpecBackoff
MaxBackoffFaults == 4     \* steamClient errors over a run of SpecBackoff
MaxSimultaneousConfig == 2 \* CONFIG.max_simultaneous_requests, where it is fixed
MaxQueueSizeConfig == 2   \* CONFIG.max_queue_size, where it is fixed
MaxPerProxy == 2          \* max_requests_per_proxy in SpecSelect
MaxProxyFaults == 10      \* steamClient errors over a run of SpecProxyFail
MaxLimit == 2             \* largest value of the two limits, where they vary
MaxLinks == 3             \* most uncached links of one job in SpecAdmit
MaxAttemptsConfig == 2    \* largest CONFIG.bot_settings.max_attempts tried
NumClients == 1           \* distinct peer addresses

Bot == 1..NumAccounts
Group == 1..NumGroups
JobId == 1..MaxJobs
Client == 1..NumClients
Reason == {"steamguard", "proxy", "ratelimit", "auth", "other"}

NoBotsAvailable == "NoBotsAvailable"
TtlExceeded == "ttl exceeded"
GcTimeout == "GC inspect timeout"

VARIABLES
    hasPool,            \* CONFIG.proxy_pool.enabled: controller.proxyPoolManager # null
    max_attempts,       \* CONFIG.bot_settings.max_attempts
    max_simultaneous_requests,  \* CONFIG.max_simultaneous_requests
    max_queue_size,     \* CONFIG.max_queue_size
    maxRequestsPerProxy,  \* pool.maxRequestsPerProxy
    maxRetries,         \* pool.retryConfig.maxRetries
    response,           \* history: what the latest handleJob did with the job
    fleet,              \* controller.bots, as account ids
    bots,               \* the Bot objects, by account
    readyEvent,         \* controller.readyEvent
    spareAccounts,      \* controller.spareAccounts (accounts in order)
    spareAccountQueue,  \* controller.spareAccountQueue
    isProcessingSpareQueue,
    groups,             \* pool.proxyGroups
    botToGroupMap,      \* pool.botToGroupMap (0: no entry)
    botRetryCount,      \* pool.botRetryCount (0: no entry)
    failedProxies,      \* pool.failedProxies
    failedAccounts,     \* controller.failedAccounts (its key set)
    queue,              \* queue.queue, as job ids
    jobs,               \* the queue entries (objects), by id
    users,              \* queue.users
    processing,         \* queue.processing
    concurrency,        \* queue.concurrency
    running,            \* queue.running
    microtasks,         \* pending promise reactions, FIFO
    nextId,             \* entries created so far
    faults,             \* steamClient errors and GC disconnects so far
    timeouts,           \* TTL expiries and GC inspect timeouts so far
    firstRun,           \* history: ids in order of their first handler invocation
    lastSend            \* history: state of the session at its latest sendFloatRequest

vars == <<hasPool, max_attempts, max_simultaneous_requests, max_queue_size,
          maxRequestsPerProxy, maxRetries,
          response, fleet, bots, readyEvent, spareAccounts,
          spareAccountQueue, isProcessingSpareQueue, groups,
          botToGroupMap, botRetryCount, failedProxies, failedAccounts, queue,
          jobs, users, processing, concurrency, running, microtasks, nextId,
          faults, timeouts, firstRun, lastSend>>

Max(a, b) == IF a >= b THEN a ELSE b
Min(a, b) == IF a <= b THEN a ELSE b
MinOf(S) == CHOOSE x \in S : \A y \in S : x <= y

RECURSIVE SumSeq(_)
SumSeq(sq) == IF sq = <<>> THEN 0 ELSE Head(sq) + SumSeq(Tail(sq))


(***************************************************************************)
(* class Bot (lib/logger.js, second half)                                  *)
(***************************************************************************)
\* phase: "spare" (no Bot object yet), "login" (logOn issued), "on" (logged
\* on), "retry" (a login retry timer is armed), "off" (nothing scheduled).
\* gcBound: the current csgoClient carries this Bot's listeners.
\* gcPending: inspects sent to the game coordinator and not yet answered.
\* delayTimer: the job whose reply armed the pending busy-clear timer, or 0.
\* retryTimer: the delay in ms of the armed login retry timer, or 0;
\* newProxy: the group whose proxy that timer's callback will apply, or 0.
NewBot ==
    [ready |-> FALSE, busy |-> FALSE, currentRequest |-> 0, resolve |-> 0,
     ttlTimeout |-> FALSE, delayTimer |-> 0, gcPending |-> {},
     phase |-> "spare", gcBound |-> TRUE, newProxy |-> 0, retryTimer |-> 0]

\* sendFloatRequest(link) for the entry id (its asset id `a` is the id).
sendFloatRequest(bot, id) ==
    [bot EXCEPT !.resolve = id,
                !.busy = TRUE,
                !.currentRequest = id,
                !.gcPending = IF bot.ready THEN @ \cup {id} ELSE @,
                !.ttlTimeout = TRUE]

\* Does the inspectItemInfo listener settle the pending inspect for itemid?
ReplyMatches(bot, itemid) ==
    bot.resolve # 0 /\ bot.currentRequest # 0 /\ itemid = bot.currentRequest

\* A reply listener that forgets to cancel the TTL timer.
inspectItemInfoKeepsTtl(bot) ==
    [bot EXCEPT !.resolve = 0,
                !.currentRequest = 0,
                !.delayTimer = bot.resolve]

\* The inspectItemInfo listener, for a reply that matches.
inspectItemInfo(bot) ==
    [bot EXCEPT !.ttlTimeout = FALSE,
                !.resolve = 0,
                !.currentRequest = 0,
                !.delayTimer = bot.resolve]

\* The callback of the busy-clear timer armed by inspectItemInfo.
requestDelayElapsed(bot) ==
    [bot EXCEPT !.busy = FALSE, !.delayTimer = 0]

\* The inspectItemTimedOut listener, when this.resolve && this.currentRequest.
inspectItemTimedOut(bot) ==
    [bot EXCEPT !.ttlTimeout = FALSE,
                !.busy = FALSE,
                !.currentRequest = 0,
                !.resolve = 0]

\* A TTL callback that rejects but forgets to clear busy.
ttlExpiredKeepsBusy(bot) ==
    [bot EXCEPT !.currentRequest = 0, !.ttlTimeout = FALSE]

\* The callback of the TTL timer armed by sendFloatRequest.
ttlExpired(bot) ==
    [bot EXCEPT !.busy = FALSE, !.currentRequest = 0, !.ttlTimeout = FALSE]

(***************************************************************************)
(* class ProxyGroup / ProxyPoolManager (lib/proxy_pool_manager.js)         *)
(***************************************************************************)
\* cooling: Date.now() - lastRequestTime < requestCooldown.
NewGroup ==
    [bots |-> <<>>, activeRequests |-> 0, cooling |-> FALSE,
     loginFailures |-> 0, successfulLogins |-> 0, failures |-> 0]

\* An admission test that forgets the per-group limit.
canAcceptRequestNoLimit(g) ==
    IF requestCooldown # 0 /\ g.cooling THEN FALSE ELSE TRUE

\* An admission test that forgets the cooldown.
canAcceptRequestNoCooldown(g) ==
    IF g.activeRequests >= maxRequestsPerProxy THEN FALSE ELSE TRUE

canAcceptRequest(g) ==
    IF g.activeRequests >= maxRequestsPerProxy THEN FALSE
    ELSE IF requestCooldown # 0 /\ g.cooling THEN FALSE
    ELSE TRUE

\* A selection test that forgets the busy flag.
IsAvailableIgnoringBusy(bot) == bot.ready

IsAvailable(bot) == ~bot.busy /\ bot.ready

\* ProxyGroup.getAvailableBot: the first bound session that is free, or 0.
GroupGetAvailableBot(g, bs) ==
    LET free == {i \in 1..Len(g.bots) : IsAvailable(bs[g.bots[i]])}
    IN  IF free = {} THEN 0 ELSE g.bots[MinOf(free)]

startRequest(g) == [g EXCEPT !.activeRequests = @ + 1, !.cooling = TRUE]

endRequest(g, success) ==
    [g EXCEPT !.activeRequests = Max(0, @ - 1),
              !.failures = IF ~success THEN @ + 1 ELSE @]

\* A comparison that prefers the more loaded group.
LoadLessReversed(g, h) ==
    g.activeRequests * Max(1, Len(h.bots)) > h.activeRequests * Max(1, Len(g.bots))

\* load(g) < load(h), load = activeRequests / max(1, |bots|), cross-multiplied.
LoadLess(g, h) ==
    g.activeRequests * Max(1, Len(h.bots)) < h.activeRequests * Max(1, Len(g.bots))

\* The least_loaded branch of getAvailableBot: the scan over proxyGroups.
RECURSIVE LeastLoadedScan(_, _, _, _, _)
LeastLoadedScan(i, selGroup, selBot, gs, bs) ==
    IF i > NumGroups THEN [group |-> selGroup, bot |-> selBot]
    ELSE LET g == gs[i]
             bot == GroupGetAvailableBot(g, bs)
         IN  IF /\ canAcceptRequest(g)
                /\ (selGroup = 0 \/ LoadLess(g, gs[selGroup]))
                /\ bot # 0
             THEN LeastLoadedScan(i + 1, i, bot, gs, bs)
             ELSE LeastLoadedScan(i + 1, selGroup, selBot, gs, bs)

\* getAvailableBot('least_loaded'): the selection, [group, bot] (0, 0 if none).
getAvailableBot(gs, bs) == LeastLoadedScan(1, 0, 0, gs, bs)

\* A scheduler test that asks for an accepting group and a free session, not
\* for a free session of an accepting group.
canAcceptMoreRequestsAnyGroup(gs, bs) ==
    /\ \E i \in Group : canAcceptRequest(gs[i])
    /\ \E i \in Group : \E k \in 1..Len(gs[i].bots) : IsAvailable(bs[gs[i].bots[k]])

canAcceptMoreRequests(gs, bs) ==
    \E i \in Group :
        /\ canAcceptRequest(gs[i])
        /\ \E k \in 1..Len(gs[i].bots) : IsAvailable(bs[gs[i].bots[k]])

\* releaseBot(bot, success): the group is looked up at release time.
releaseBot(gs, map, b, success) ==
    IF map[b] # 0 THEN [gs EXCEPT ![map[b]] = endRequest(@, success)] ELSE gs

getMaxConcurrency == NumGroups * maxRequestsPerProxy


SeqOfRange(lo, hi) == [k \in 1..(hi - lo + 1) |-> lo + k - 1]

CeilDiv(a, b) == (a + b - 1) \div b

\* distributeBots(bots): the group (1-based) that the walk puts the k-th
\* session of n in.
DistributedGroup(k, n) ==
    LET botsPerProxy == CeilDiv(n, NumGroups)
    IN  Min((k - 1) \div botsPerProxy, NumGroups - 1) + 1

IndexOf(sq, x) == MinOf({k \in 1..Len(sq) : sq[k] = x})

\* distributeBots(bots): the pool [groups, map, retry, failed] afterwards.
distributeBots(pool, fl) ==
    LET n == Len(fl)
    IN  [pool EXCEPT
            !.groups = [i \in Group |->
                [pool.groups[i] EXCEPT !.bots =
                    SelectSeq(fl, LAMBDA b : DistributedGroup(IndexOf(fl, b), n) = i)]],
            !.map = [b \in Bot |->
                IF \E k \in 1..n : fl[k] = b
                THEN DistributedGroup(IndexOf(fl, b), n) ELSE 0]]

RemoveFromSeq(sq, x) == SelectSeq(sq, LAMBDA y : y # x)

\* A rate that reports the share of failed logins.
getFailureRate(g) ==
    LET total == g.successfulLogins + g.loginFailures
    IN  IF total > 0 THEN <<g.loginFailures, total>> ELSE <<0, 1>>

\* getSuccessRate as a fraction <<numerator, denominator>>.
getSuccessRate(g) ==
    LET total == g.successfulLogins + g.loginFailures
    IN  IF total > 0 THEN <<g.successfulLogins, total>> ELSE <<0, 1>>

Abs(x) == IF x < 0 THEN -x ELSE x

\* The comparator of reassignBot's sort: > 0 puts a after b.
CompareGroups(a, b) ==
    LET ra == getSuccessRate(a)
        rb == getSuccessRate(b)
        num == rb[1] * ra[2] - ra[1] * rb[2]      \* successDiff = num / den
        den == ra[2] * rb[2]
    IN  IF 10 * Abs(num) > den
        THEN (IF num > 0 THEN 1 ELSE -1)
        ELSE Len(a.bots) - Len(b.bots)

\* Array.prototype.sort on a short array: stable insertion sort.
RECURSIVE InsertSorted(_, _, _)
InsertSorted(x, sorted, gs) ==
    IF sorted = <<>> THEN <<x>>
    ELSE LET last == sorted[Len(sorted)]
         IN  IF CompareGroups(gs[last], gs[x]) > 0
             THEN Append(InsertSorted(x, SubSeq(sorted, 1, Len(sorted) - 1), gs), last)
             ELSE Append(sorted, x)

RECURSIVE SortGroups(_, _)
SortGroups(ids, gs) ==
    IF ids = <<>> THEN <<>>
    ELSE InsertSorted(ids[Len(ids)], SortGroups(SubSeq(ids, 1, Len(ids) - 1), gs), gs)

\* reassignBot(bot, excludeGroupIds): the pool afterwards and the new group
\* (0 for null).  excludeFailed is retryConfig.excludeFailed (default true).
excludeFailed == TRUE

\* reassignBot that does not skip the groups in failedProxies.
reassignBotIgnoresFailed(pool, b, excludeGroupIds) ==
    LET currentGroup == pool.map[b]
        gs1 == IF currentGroup # 0
               THEN [pool.groups EXCEPT ![currentGroup].bots = RemoveFromSeq(@, b)]
               ELSE pool.groups
        availableGroups ==
            SelectSeq(SeqOfRange(1, NumGroups),
                      LAMBDA i : /\ i \notin excludeGroupIds
                                 /\ Len(gs1[i].bots) < maxRequestsPerProxy)
    IN  IF availableGroups = <<>>
        THEN [pool |-> [pool EXCEPT !.groups = gs1], newGroup |-> 0]
        ELSE LET newGroup == SortGroups(availableGroups, gs1)[1]
             IN  [pool |-> [pool EXCEPT
                               !.groups = [gs1 EXCEPT ![newGroup].bots = Append(@, b)],
                               !.map = [@ EXCEPT ![b] = newGroup]],
                  newGroup |-> newGroup]

\* reassignBot that binds the session to the new group without removing it
\* from its current one.
reassignBotKeepsOld(pool, b, excludeGroupIds) ==
    LET gs1 == pool.groups
        availableGroups ==
            SelectSeq(SeqOfRange(1, NumGroups),
                      LAMBDA i : /\ i \notin excludeGroupIds
                                 /\ ~(excludeFailed /\ i \in pool.failed)
                                 /\ Len(gs1[i].bots) < maxRequestsPerProxy)
    IN  IF availableGroups = <<>>
        THEN [pool |-> pool, newGroup |-> 0]
        ELSE LET newGroup == SortGroups(availableGroups, gs1)[1]
             IN  [pool |-> [pool EXCEPT
                               !.groups = [gs1 EXCEPT ![newGroup].bots = Append(@, b)],
                               !.map = [@ EXCEPT ![b] = newGroup]],
                  newGroup |-> newGroup]

reassignBot(pool, b, excludeGroupIds) ==
    LET currentGroup == pool.map[b]
        gs1 == IF currentGroup # 0
               THEN [pool.groups EXCEPT ![currentGroup].bots = RemoveFromSeq(@, b)]
               ELSE pool.groups
        availableGroups ==
            SelectSeq(SeqOfRange(1, NumGroups),
                      LAMBDA i : /\ i \notin excludeGroupIds
                                 /\ ~(excludeFailed /\ i \in pool.failed)
                                 /\ Len(gs1[i].bots) < maxRequestsPerProxy)
    IN  IF availableGroups = <<>>
        THEN [pool |-> [pool EXCEPT !.groups = gs1], newGroup |-> 0]
        ELSE LET newGroup == SortGroups(availableGroups, gs1)[1]
             IN  [pool |-> [pool EXCEPT
                               !.groups = [gs1 EXCEPT ![newGroup].bots = Append(@, b)],
                               !.map = [@ EXCEPT ![b] = newGroup]],
                  newGroup |-> newGroup]

retryEnabled == TRUE      \* retryConfig.enabled (default)
retryDelay == 5000        \* retryConfig.retryDelay (default), ms

\* handleLoginFailure(bot, error, reason): the pool afterwards and the
\* decision {shouldRetry, newProxy, retryDelay, retryCount} (newProxy 0 for
\* null / absent, retryDelay and retryCount 0 for undefined).
handleLoginFailure(pool, b, reason) ==
    LET group == pool.map[b]
        gs1 == IF group # 0
               THEN [pool.groups EXCEPT ![group].loginFailures = @ + 1]
               ELSE pool.groups
        rate == IF group # 0 THEN getSuccessRate(gs1[group]) ELSE <<0, 1>>
        failed1 == IF group # 0 /\ gs1[group].loginFailures > 5
                               /\ 10 * rate[1] < 3 * rate[2]
                   THEN pool.failed \cup {group} ELSE pool.failed
        p1 == [pool EXCEPT !.groups = gs1, !.failed = failed1]
        retryCount == pool.retry[b]
        excludeGroups == IF group # 0 THEN {group} ELSE {}
        p2 == [p1 EXCEPT !.retry = [@ EXCEPT ![b] = retryCount + 1]]
        reassignment == reassignBot(p2, b, excludeGroups)
    IN  IF ~retryEnabled
        THEN [pool |-> p1, shouldRetry |-> FALSE, newProxy |-> 0,
              retryDelay |-> 0, retryCount |-> 0]
        ELSE IF retryCount >= maxRetries
        THEN [pool |-> p1, shouldRetry |-> FALSE, newProxy |-> 0,
              retryDelay |-> 0, retryCount |-> 0]
        ELSE IF reason = "steamguard"
        THEN [pool |-> reassignment.pool, shouldRetry |-> TRUE,
              newProxy |-> reassignment.newGroup,
              retryDelay |-> 10000, retryCount |-> retryCount + 1]
        ELSE IF reassignment.newGroup = 0
        THEN [pool |-> reassignment.pool, shouldRetry |-> FALSE, newProxy |-> 0,
              retryDelay |-> 0, retryCount |-> 0]
        ELSE [pool |-> reassignment.pool, shouldRetry |-> TRUE,
              newProxy |-> reassignment.newGroup,
              retryDelay |-> retryDelay, retryCount |-> retryCount + 1]

\* handleLoginSuccess(bot).
handleLoginSuccess(pool, b) ==
    LET group == pool.map[b]
    IN  [pool EXCEPT
            !.groups = IF group # 0
                       THEN [@ EXCEPT ![group].successfulLogins = @ + 1]
                       ELSE @,
            !.retry = [@ EXCEPT ![b] = 0]]


(***************************************************************************)
(* class BotController (lib/bot_controller.js)                             *)
(***************************************************************************)
InFleet(fl, b) == \E k \in 1..Len(fl) : fl[k] = b

hasBotOnline(fl, bs) == \E k \in 1..Len(fl) : bs[fl[k]].ready

getReadyAmount(fl, bs) == Cardinality({k \in 1..Len(fl) : bs[fl[k]].ready})

\* getFreeBot: the possible selections [group, bot]; bot 0 when it returns
\* false.  Without a pool any free session may come first in the shuffle.
getFreeBot(s) ==
    IF hasPool THEN {getAvailableBot(s.groups, s.bots)}
    ELSE LET free == {b \in Bot : InFleet(fleet, b) /\ IsAvailable(s.bots[b])}
         IN  IF free = {} THEN {[group |-> 0, bot |-> 0]}
             ELSE {[group |-> 0, bot |-> b] : b \in free}

Reaction(kind, id, b, err) == [kind |-> kind, id |-> id, bot |-> b, err |-> err]

SendStatus(bot) ==
    IF bot.busy THEN "busy" ELSE IF bot.delayTimer # 0 THEN "spacing" ELSE "idle"

\* lookupFloat(link) for entry id, given the selection sel of getFreeBot
\* (startRequest is the tail of the pool's getAvailableBot).
lookupFloat(s, id, sel) ==
    IF sel.bot = 0
    THEN [s EXCEPT !.microtasks = Append(@, Reaction("catch", id, 0, NoBotsAvailable))]
    ELSE LET b == sel.bot
             s1 == [s EXCEPT
                      !.groups = IF sel.group # 0
                                 THEN [@ EXCEPT ![sel.group] = startRequest(@)]
                                 ELSE @,
                      !.bots = [@ EXCEPT ![b] = sendFloatRequest(@, id)],
                      !.jobs = [@ EXCEPT ![id].bot = b],
                      !.lastSend = [@ EXCEPT ![b] = SendStatus(s.bots[b])]]
         IN  IF s.bots[b].ready THEN s1
             ELSE [s1 EXCEPT !.microtasks =
                      Append(@, Reaction("finally", id, b, "This bot is not ready"))]

(***************************************************************************)
(* class Queue (lib/queue.js) with the handler of unnamed/part_000         *)
(***************************************************************************)
\* The handler passed to queue.process, up to its first suspension.
handler(s, id) ==
    LET s1 == [s EXCEPT !.jobs = [@ EXCEPT ![id].status = "handling"],
                        !.firstRun = IF \E k \in 1..Len(@) : @[k] = id
                                     THEN @ ELSE Append(@, id)]
    IN  {lookupFloat(s1, id, sel) : sel \in getFreeBot(s1)}

\* An off-by-one dispatch test.
CanDispatchInclusive(s, conc) == Len(s.queue) > 0 /\ s.processing <= conc

\* May checkQueue take the head of the queue?
CanDispatch(s, conc) == Len(s.queue) > 0 /\ s.processing < conc

\* checkQueue(): the possible states afterwards.
checkQueue(s, conc) ==
    IF ~running THEN {s}
    ELSE IF hasPool /\ ~canAcceptMoreRequests(s.groups, s.bots) THEN {s}
    ELSE IF CanDispatch(s, conc)
    THEN handler([s EXCEPT !.queue = Tail(@), !.processing = @ + 1], Head(s.queue))
    ELSE {s}

\* An addJob that inserts at the head.
EnqueueAtHead(q, id) == <<id>> \o q

\* addJob pushes at the tail.
Enqueue(q, id) == Append(q, id)

\* A retry that goes to the back of the queue.
RequeueAtTail(q, id) == Append(q, id)

\* The retry branch of checkQueue's catch re-inserts at the head.
Requeue(q, id) == <<id>> \o q

\* A catch that counts every rejection.
CountAttemptAlways(attempts, err) == attempts + 1

\* attempts after a rejection with err.
CountAttempt(attempts, err) ==
    IF err # NoBotsAvailable THEN attempts + 1 ELSE attempts

\* Has the entry exhausted its attempts?
IsExhausted(attempts, maxAttempts) == attempts = maxAttempts

\* The reaction of lookupFloat's finally: release (the callback passes
\* success = true whatever the outcome), then the handler goes on to the
\* cache insert (success) or rejects (failure).
RunFinally(s, m) ==
    LET s1 == [s EXCEPT !.groups = IF hasPool
                                   THEN releaseBot(@, botToGroupMap, m.bot, TRUE) ELSE @]
    IN  IF m.err = ""
        THEN [s1 EXCEPT !.jobs = [@ EXCEPT ![m.id].status = "io"]]
        ELSE [s1 EXCEPT !.microtasks = Append(@, Reaction("catch", m.id, 0, m.err))]

\* A catch that gives the client its slot back on every rejection, requeued
\* or not.
RunCatchReleasesOnRequeue(s, m) ==
    LET job == s.jobs[m.id]
        attempts == CountAttempt(job.attempts, m.err)
        s1 == IF IsExhausted(attempts, max_attempts)
              THEN [s EXCEPT !.jobs = [@ EXCEPT ![m.id].attempts = attempts,
                                                ![m.id].status = "failed",
                                                ![m.id].bot = 0],
                             !.users = [@ EXCEPT ![job.ip] = @ - 1]]
              ELSE [s EXCEPT !.jobs = [@ EXCEPT ![m.id].attempts = attempts,
                                                ![m.id].status = "queued",
                                                ![m.id].bot = 0],
                             !.users = [@ EXCEPT ![job.ip] = @ - 1],
                             !.queue = Requeue(@, m.id)]
    IN  [s1 EXCEPT !.microtasks = Append(@, Reaction("then", m.id, 0, ""))]

\* A catch that emits 'job failed' and puts the entry back all the same.
RunCatchRequeuesFailed(s, m) ==
    LET job == s.jobs[m.id]
        attempts == CountAttempt(job.attempts, m.err)
        s1 == IF IsExhausted(attempts, max_attempts)
              THEN [s EXCEPT !.jobs = [@ EXCEPT ![m.id].attempts = attempts,
                                                ![m.id].status = "failed",
                                                ![m.id].bot = 0],
                             !.users = [@ EXCEPT ![job.ip] = @ - 1],
                             !.queue = Requeue(@, m.id)]
              ELSE [s EXCEPT !.jobs = [@ EXCEPT ![m.id].attempts = attempts,
                                                ![m.id].status = "queued",
                                                ![m.id].bot = 0],
                             !.queue = Requeue(@, m.id)]
    IN  [s1 EXCEPT !.microtasks = Append(@, Reaction("then", m.id, 0, ""))]

\* The catch reaction of checkQueue.
RunCatch(s, m) ==
    LET job == s.jobs[m.id]
        attempts == CountAttempt(job.attempts, m.err)
        s1 == IF IsExhausted(attempts, max_attempts)
              THEN [s EXCEPT !.jobs = [@ EXCEPT ![m.id].attempts = attempts,
                                                ![m.id].status = "failed",
                                                ![m.id].bot = 0],
                             !.users = [@ EXCEPT ![job.ip] = @ - 1]]
              ELSE [s EXCEPT !.jobs = [@ EXCEPT ![m.id].attempts = attempts,
                                                ![m.id].status = "queued",
                                                ![m.id].bot = 0],
                             !.queue = Requeue(@, m.id)]
    IN  [s1 EXCEPT !.microtasks = Append(@, Reaction("then", m.id, 0, ""))]

\* The final then reaction of checkQueue: the possible states afterwards.
RunThen(s, conc) ==
    checkQueue([s EXCEPT !.processing = @ - 1], conc)


(***************************************************************************)
(* The supervisor's handlers, on the record                                *)
(* [fleet, bots, readyEvent, spares, spareQueue, busy, pool, failedAccounts]*)
(***************************************************************************)
\* An unready listener that lowers the fleet's flag without asking whether
\* another session is still ready.
setReadyAnyUnready(c, b, val) ==
    LET prev == c.bots[b].ready
        bs1 == [c.bots EXCEPT ![b].ready = val]
        c1 == [c EXCEPT !.bots = bs1]
    IN  IF val = prev THEN c1
        ELSE IF val
        THEN [c1 EXCEPT !.readyEvent =
                 IF ~c.readyEvent /\ hasBotOnline(c.fleet, bs1) THEN TRUE ELSE @]
        ELSE [c1 EXCEPT !.readyEvent = FALSE]

\* The ready setter of Bot with the controller's ready / unready listeners.
setReady(c, b, val) ==
    LET prev == c.bots[b].ready
        bs1 == [c.bots EXCEPT ![b].ready = val]
        c1 == [c EXCEPT !.bots = bs1]
    IN  IF val = prev THEN c1
        ELSE IF val
        THEN [c1 EXCEPT !.readyEvent =
                 IF ~c.readyEvent /\ hasBotOnline(c.fleet, bs1) THEN TRUE ELSE @]
        ELSE [c1 EXCEPT !.readyEvent =
                 IF c.readyEvent /\ ~hasBotOnline(c.fleet, bs1) THEN FALSE ELSE @]

\* logIn(): ready = false, then logOn.
logIn(c, b) ==
    LET c1 == setReady(c, b, FALSE)
    IN  [c1 EXCEPT !.bots = [@ EXCEPT ![b].phase = "login"]]

\* addBot(loginData, settings): a new Bot, pushed on this.bots, logging in.
addBot(c, acct) ==
    logIn([c EXCEPT !.bots = [@ EXCEPT ![acct] = NewBot],
                    !.fleet = Append(@, acct)], acct)

\* processSpareAccountQueue from the top of its while loop, up to its first
\* suspension or its end.
RECURSIVE SpareQueueLoop(_)
SpareQueueLoop(c) ==
    IF c.spareQueue = <<>> THEN [c EXCEPT !.busy = FALSE]
    ELSE IF getReadyAmount(c.fleet, c.bots) >= maxOnlineBots
    THEN [c EXCEPT !.spareQueue = <<>>, !.busy = FALSE]
    ELSE LET c1 == addBot([c EXCEPT !.spareQueue = Tail(@)], Head(c.spareQueue))
             c2 == IF hasPool
                   THEN [c1 EXCEPT !.pool = distributeBots(@, c1.fleet)]
                   ELSE c1
         IN  IF c2.spareQueue # <<>> THEN c2 ELSE SpareQueueLoop(c2)

\* A drain that returns without clearing isProcessingSpareQueue.
processSpareAccountQueueKeepsFlag(c) ==
    IF c.busy THEN c
    ELSE [SpareQueueLoop([c EXCEPT !.busy = TRUE]) EXCEPT !.busy = TRUE]

processSpareAccountQueue(c) ==
    IF c.busy THEN c ELSE SpareQueueLoop([c EXCEPT !.busy = TRUE])

\* trySpareAccount that leaves the account on the queue without starting the
\* drain.
trySpareAccountNoDrain(c) ==
    IF c.spares = <<>> THEN c
    ELSE IF getReadyAmount(c.fleet, c.bots) + Len(c.spareQueue) >= maxOnlineBots
    THEN c
    ELSE [c EXCEPT !.spares = Tail(@),
                   !.spareQueue = Append(@, Head(c.spares))]

trySpareAccount(c) ==
    IF c.spares = <<>> THEN c
    ELSE IF getReadyAmount(c.fleet, c.bots) + Len(c.spareQueue) >= maxOnlineBots
    THEN c
    ELSE LET c1 == [c EXCEPT !.spares = Tail(@),
                             !.spareQueue = Append(@, Head(c.spares))]
         IN  IF ~c1.busy THEN processSpareAccountQueue(c1) ELSE c1

markAccountFailed(c, acct) ==
    trySpareAccount([c EXCEPT !.failedAccounts = @ \cup {acct}])

RECURSIVE TrySpareTimes(_, _)
TrySpareTimes(c, n) ==
    IF n = 0 THEN c ELSE TrySpareTimes(trySpareAccount(c), n - 1)

checkAndMaintainBotCount(c) ==
    LET readyCount == getReadyAmount(c.fleet, c.bots)
        queuedCount == Len(c.spareQueue)
    IN  IF readyCount + queuedCount < maxOnlineBots /\ Len(c.spares) > 0
        THEN TrySpareTimes(c, Min(maxOnlineBots - readyCount - queuedCount,
                                  Len(c.spares)))
        ELSE c

\* A retry delay taken from the pool's decision for every reason.
LoginRetryDelayFromPool(reason, retryInfo) == retryInfo.retryDelay

\* A rate-limit backoff without the 120 s cap.
LoginRetryDelayUncapped(reason, retryInfo) ==
    CASE reason = "steamguard" -> 15000
      [] reason = "ratelimit" -> 30000 * 2 ^ (retryInfo.retryCount - 1)
      [] reason = "proxy" -> 10000
      [] OTHER -> retryInfo.retryDelay

\* The delay of the retry timer handleBotLoginFailure arms, in ms.
LoginRetryDelay(reason, retryInfo) ==
    CASE reason = "steamguard" -> 15000
      [] reason = "ratelimit" -> Min(30000 * 2 ^ (retryInfo.retryCount - 1), 120000)
      [] reason = "proxy" -> 10000
      [] OTHER -> retryInfo.retryDelay

\* handleBotLoginFailure(bot, loginData, error, reason).
handleBotLoginFailure(c, b, reason) ==
    LET retryInfo == handleLoginFailure(c.pool, b, reason)
        c1 == [c EXCEPT !.pool = retryInfo.pool]
        delay == LoginRetryDelay(reason, retryInfo)
        scheduled == [c1 EXCEPT !.bots = [@ EXCEPT ![b].phase = "retry",
                                                   ![b].newProxy = retryInfo.newProxy,
                                                   ![b].retryTimer = delay]]
        dropped == [c EXCEPT !.bots = [@ EXCEPT ![b].phase = "off"]]
        dropped1 == [c1 EXCEPT !.bots = [@ EXCEPT ![b].phase = "off"]]
    IN  IF reason = "steamguard"
        THEN IF hasPool
             THEN IF retryInfo.shouldRetry /\ retryInfo.newProxy # 0
                  THEN scheduled ELSE dropped1
             ELSE dropped
        ELSE IF ~hasPool THEN dropped
        ELSE IF ~retryInfo.shouldRetry THEN markAccountFailed(dropped1, b)
        ELSE scheduled

\* updateProxySettings(proxyUrl): the new csgoClient is created after
\* bindEventHandlers() ran, so the listeners stay on the old one.
updateProxySettings(bot) == [bot EXCEPT !.gcBound = FALSE]


(***************************************************************************)
(* State records and their write-back                                      *)
(***************************************************************************)
QueueState == [bots |-> bots, groups |-> groups, queue |-> queue, jobs |-> jobs,
      users |-> users, processing |-> processing, microtasks |-> microtasks,
      firstRun |-> firstRun, lastSend |-> lastSend]

SetQ(s) ==
    /\ bots' = s.bots
    /\ groups' = s.groups
    /\ queue' = s.queue
    /\ jobs' = s.jobs
    /\ users' = s.users
    /\ processing' = s.processing
    /\ microtasks' = s.microtasks
    /\ firstRun' = s.firstRun
    /\ lastSend' = s.lastSend

PoolState == [groups |-> groups, map |-> botToGroupMap, retry |-> botRetryCount,
      failed |-> failedProxies]

FleetState == [fleet |-> fleet, bots |-> bots, readyEvent |-> readyEvent,
      spares |-> spareAccounts, spareQueue |-> spareAccountQueue,
      busy |-> isProcessingSpareQueue, pool |-> PoolState,
      failedAccounts |-> failedAccounts]

SetC(c) ==
    /\ fleet' = c.fleet
    /\ bots' = c.bots
    /\ readyEvent' = c.readyEvent
    /\ spareAccounts' = c.spares
    /\ spareAccountQueue' = c.spareQueue
    /\ isProcessingSpareQueue' = c.busy
    /\ groups' = c.pool.groups
    /\ botToGroupMap' = c.pool.map
    /\ botRetryCount' = c.pool.retry
    /\ failedProxies' = c.pool.failed
    /\ failedAccounts' = c.failedAccounts

configVars == <<hasPool, max_attempts, max_simultaneous_requests, max_queue_size,
                maxRequestsPerProxy, maxRetries>>
envVars == <<faults, timeouts>>
queueVars == <<queue, jobs, users, processing, concurrency, running, microtasks,
               nextId, firstRun, lastSend>>
fleetVars == <<fleet, readyEvent, spareAccounts, spareAccountQueue,
               isProcessingSpareQueue, failedAccounts>>
poolVars == <<botToGroupMap, botRetryCount, failedProxies>>

\* No promise reaction is pending: the event loop takes the next macro-task.
Idle == microtasks = <<>>

(***************************************************************************)
(* Initial state: the entry script has run to its end.  The first chunk of *)
(* initial accounts is logging in and distributed, the rest are spares,    *)
(* queue.process(CONFIG.logins.length, ...) has started the queue.         *)
(***************************************************************************)
InitialFleet(logins) == SeqOfRange(1, Min(maxOnlineBots, logins))

EmptyPool ==
    [groups |-> [i \in Group |-> NewGroup], map |-> [b \in Bot |-> 0],
     retry |-> [b \in Bot |-> 0], failed |-> {}]

NewJob == [status |-> "new", attempts |-> 0, ip |-> 0, bot |-> 0]

InitPolicy(enabled, attempts, logins, maxSimultaneous, maxQueueSize, perProxy, retries) ==
    /\ hasPool = enabled
    /\ maxRequestsPerProxy = perProxy
    /\ maxRetries = retries
    /\ max_attempts = attempts
    /\ max_simultaneous_requests = maxSimultaneous
    /\ max_queue_size = maxQueueSize
    /\ response = "none"
    /\ fleet = InitialFleet(logins)
    /\ bots = [b \in Bot |-> IF InFleet(InitialFleet(logins), b)
                             THEN [NewBot EXCEPT !.phase = "login"] ELSE NewBot]
    /\ readyEvent = FALSE
    /\ spareAccounts = SeqOfRange(Len(InitialFleet(logins)) + 1, logins)
    /\ spareAccountQueue = <<>>
    /\ isProcessingSpareQueue = FALSE
    /\ LET pool == IF hasPool THEN distributeBots(EmptyPool, InitialFleet(logins))
                   ELSE EmptyPool
       IN  /\ groups = pool.groups
           /\ botToGroupMap = pool.map
           /\ botRetryCount = pool.retry
           /\ failedProxies = pool.failed
    /\ failedAccounts = {}
    /\ queue = <<>>
    /\ jobs = [id \in JobId |-> NewJob]
    /\ users = [ip \in Client |-> 0]
    /\ processing = 0
    /\ concurrency = logins
    /\ running = TRUE
    /\ microtasks = <<>>
    /\ nextId = 0
    /\ faults = 0
    /\ timeouts = 0
    /\ firstRun = <<>>
    /\ lastSend = [b \in Bot |-> "none"]

InitConfigured(enabled, attempts, logins, maxSimultaneous, maxQueueSize, perProxy) ==
    InitPolicy(enabled, attempts, logins, maxSimultaneous, maxQueueSize, perProxy,
               MaxRetriesConfig)

InitWithLimits(enabled, attempts, logins, maxSimultaneous, maxQueueSize) ==
    InitConfigured(enabled, attempts, logins, maxSimultaneous, maxQueueSize,
                   MaxRequestsPerProxyConfig)

InitWith(enabled, attempts, logins) ==
    InitWithLimits(enabled, attempts, logins, MaxSimultaneousConfig, MaxQueueSizeConfig)

(***************************************************************************)
(* Queue actions                                                           *)
(***************************************************************************)
\* addJob's loop body for one link, on every state of the set S.
RECURSIVE AddLinks(_, _, _, _)
AddLinks(S, id, last, ip) ==
    IF id > last THEN S
    ELSE AddLinks(
            UNION {checkQueue(
                      [s EXCEPT !.queue = Enqueue(@, id),
                                !.jobs = [@ EXCEPT ![id] =
                                    [NewJob EXCEPT !.status = "queued", !.ip = ip]],
                                !.users = [@ EXCEPT ![ip] = @ + 1]],
                      concurrency) : s \in S},
            id + 1, last, ip)

\* handleJob after the cache lookup: is a job with n unresolved links admitted?
Admitted(ip, n) ==
    /\ hasBotOnline(fleet, bots)
    /\ ~(max_simultaneous_requests > 0 /\ users[ip] + n > max_simultaneous_requests)
    /\ ~(max_queue_size > 0 /\ Len(queue) + n > max_queue_size)
    /\ n > 0

\* A client submits a job with n uncached links and it is admitted.
AddJob(ip, n) ==
    /\ Idle
    /\ nextId + n <= MaxJobs
    /\ Admitted(ip, n)
    /\ \E s \in AddLinks({QueueState}, nextId + 1, nextId + n, ip) : SetQ(s)
    /\ nextId' = nextId + n
    /\ UNCHANGED <<configVars, response, envVars, fleetVars, poolVars, concurrency, running>>

\* A count that forgets the client's entries already in the queue.
getUserQueuedAmtFresh(ip) == 0

\* getUserQueuedAmt(ip).
getUserQueuedAmt(ip) == users[ip]

\* A queue-size check that only accepts a job that fills the queue exactly.
QueueSizeAcceptsExact(size, remaining, limit) ==
    ~(limit > 0 /\ size + remaining # limit)

\* The queue-size check of handleJob: does a job with `remaining` uncached
\* links pass when the queue holds `size` entries and max_queue_size = limit?
QueueSizeAccepts(size, remaining, limit) ==
    ~(limit > 0 /\ size + remaining > limit)

\* A handleJob that tests the queue size before the client's quota.
handleJobQueueSizeFirst(ip, n) ==
    IF ~hasBotOnline(fleet, bots) THEN "SteamOffline"
    ELSE IF ~QueueSizeAccepts(Len(queue), n, max_queue_size) THEN "MaxQueueSize"
    ELSE IF max_simultaneous_requests > 0
            /\ getUserQueuedAmt(ip) + n > max_simultaneous_requests
    THEN "MaxRequests"
    ELSE IF n > 0 THEN "addJob" ELSE "none"

\* handleJob(job) after the cache lookup, for a job of client ip with n
\* uncached links: the error it answers the remaining links with, or
\* "addJob" when it calls queue.addJob.
handleJob(ip, n) ==
    IF ~hasBotOnline(fleet, bots) THEN "SteamOffline"
    ELSE IF max_simultaneous_requests > 0
            /\ getUserQueuedAmt(ip) + n > max_simultaneous_requests
    THEN "MaxRequests"
    ELSE IF ~QueueSizeAccepts(Len(queue), n, max_queue_size) THEN "MaxQueueSize"
    ELSE IF n > 0 THEN "addJob" ELSE "none"

\* A client submits a job with n uncached links: handleJob runs, whatever
\* its outcome.
HandleJob(ip, n) ==
    /\ Idle
    /\ response' = handleJob(ip, n)
    /\ IF handleJob(ip, n) = "addJob"
       THEN /\ nextId + n <= MaxJobs
            /\ \E s \in AddLinks({QueueState}, nextId + 1, nextId + n, ip) : SetQ(s)
            /\ nextId' = nextId + n
       ELSE UNCHANGED <<bots, groups, queue, jobs, users, processing, microtasks,
                        firstRun, lastSend, nextId>>
    /\ UNCHANGED <<configVars, envVars, fleetVars, poolVars, concurrency, running>>

RECURSIVE CheckQueueTimes(_, _, _)
CheckQueueTimes(S, k, conc) ==
    IF k <= 0 THEN S
    ELSE CheckQueueTimes(UNION {checkQueue(s, conc) : s \in S}, k - 1, conc)

\* The value the 50 ms interval of Queue.process gives concurrency.
NewConcurrency ==
    IF hasPool THEN Min(getMaxConcurrency, getReadyAmount(fleet, bots))
    ELSE getReadyAmount(fleet, bots)

\* The 50 ms interval of Queue.process.
ConcurrencyTick ==
    /\ Idle
    /\ concurrency' = NewConcurrency
    /\ \E s \in CheckQueueTimes({QueueState}, NewConcurrency - concurrency, NewConcurrency) :
          SetQ(s)
    /\ UNCHANGED <<configVars, response, envVars, fleetVars, poolVars, running, nextId>>

\* The reaction of lookupFloat's finally.
FinallyReaction ==
    /\ microtasks # <<>>
    /\ Head(microtasks).kind = "finally"
    /\ SetQ(RunFinally([QueueState EXCEPT !.microtasks = Tail(@)], Head(microtasks)))
    /\ UNCHANGED <<configVars, response, envVars, fleetVars, poolVars, concurrency, running, nextId>>

\* The catch reaction of checkQueue.
CatchReaction ==
    /\ microtasks # <<>>
    /\ Head(microtasks).kind = "catch"
    /\ SetQ(RunCatch([QueueState EXCEPT !.microtasks = Tail(@)], Head(microtasks)))
    /\ UNCHANGED <<configVars, response, envVars, fleetVars, poolVars, concurrency, running, nextId>>

\* The last then reaction of checkQueue, after a rejection.
ThenReaction ==
    /\ microtasks # <<>>
    /\ Head(microtasks).kind = "then"
    /\ \E s \in RunThen([QueueState EXCEPT !.microtasks = Tail(@)], concurrency) : SetQ(s)
    /\ UNCHANGED <<configVars, response, envVars, fleetVars, poolVars, concurrency, running, nextId>>

\* The handler's cache insert and annotation finish; it returns the delay and
\* checkQueue's first then reaction decrements users and arms the delay timer.
HandlerDone(id) ==
    /\ Idle
    /\ jobs[id].status = "io"
    /\ jobs' = [jobs EXCEPT ![id].status = "spacing"]
    /\ users' = [users EXCEPT ![jobs[id].ip] = @ - 1]
    /\ UNCHANGED <<configVars, response, envVars, fleetVars, poolVars, bots, groups, queue,
                   processing, concurrency, running, microtasks, nextId,
                   firstRun, lastSend>>

\* The delay timer of checkQueue fires (it was armed after the session's own
\* busy-clear timer with the same delay, so it fires after it); the last then
\* reaction runs.
QueueDelayElapsed(id) ==
    /\ Idle
    /\ jobs[id].status = "spacing"
    /\ bots[jobs[id].bot].delayTimer # id
    /\ \E s \in RunThen([QueueState EXCEPT !.jobs = [@ EXCEPT ![id].status = "done",
                                                                 ![id].bot = 0]],
                        concurrency) : SetQ(s)
    /\ UNCHANGED <<configVars, response, envVars, fleetVars, poolVars, concurrency, running, nextId>>


(***************************************************************************)
(* Session actions                                                         *)
(***************************************************************************)
\* The game coordinator answers the inspect of item a sent by session b.
InspectReply(b, a) ==
    /\ Idle
    /\ bots[b].phase = "on" /\ bots[b].gcBound
    /\ a \in bots[b].gcPending
    /\ LET bot == [bots[b] EXCEPT !.gcPending = @ \ {a}]
       IN  IF ReplyMatches(bot, a)
           THEN /\ bots' = [bots EXCEPT ![b] = inspectItemInfo(bot)]
                /\ microtasks' = Append(microtasks, Reaction("finally", bot.resolve, b, ""))
           ELSE /\ bots' = [bots EXCEPT ![b] = bot]
                /\ UNCHANGED microtasks
    /\ UNCHANGED <<configVars, response, envVars, fleetVars, poolVars, groups, queue, jobs, users,
                   processing, concurrency, running, nextId, firstRun, lastSend>>

\* The game-coordinator client gives up on the inspect of item a.
GcTimedOut(b, a) ==
    /\ Idle
    /\ a \in bots[b].gcPending
    /\ timeouts < MaxTimeouts
    /\ timeouts' = timeouts + 1
    /\ LET bot == [bots[b] EXCEPT !.gcPending = @ \ {a}]
       IN  IF bot.resolve # 0 /\ bot.currentRequest # 0
           THEN /\ bots' = [bots EXCEPT ![b] = inspectItemTimedOut(bot)]
                /\ microtasks' = Append(microtasks,
                                        Reaction("finally", bot.resolve, b, GcTimeout))
           ELSE /\ bots' = [bots EXCEPT ![b] = bot]
                /\ UNCHANGED microtasks
    /\ UNCHANGED <<configVars, response, faults, fleetVars, poolVars, groups, queue, jobs, users,
                   processing, concurrency, running, nextId, firstRun, lastSend>>

\* The TTL timer of sendFloatRequest fires.
TtlExpired(b) ==
    /\ Idle
    /\ bots[b].ttlTimeout
    /\ timeouts < MaxTimeouts
    /\ timeouts' = timeouts + 1
    /\ bots' = [bots EXCEPT ![b] = ttlExpired(@)]
    /\ microtasks' = Append(microtasks,
                            Reaction("finally", bots[b].resolve, b, TtlExceeded))
    /\ UNCHANGED <<configVars, response, faults, fleetVars, poolVars, groups, queue, jobs, users,
                   processing, concurrency, running, nextId, firstRun, lastSend>>

\* The busy-clear timer armed by a reply fires.
RequestDelayElapsed(b) ==
    /\ Idle
    /\ bots[b].delayTimer # 0
    /\ bots' = [bots EXCEPT ![b] = requestDelayElapsed(@)]
    /\ UNCHANGED <<configVars, response, envVars, fleetVars, poolVars, groups, queue, jobs, users,
                   processing, concurrency, running, microtasks, nextId,
                   firstRun, lastSend>>

\* requestCooldown ms have passed since the group's lastRequestTime.
CooldownElapsed(g) ==
    /\ Idle
    /\ groups[g].cooling
    /\ groups' = [groups EXCEPT ![g].cooling = FALSE]
    /\ UNCHANGED <<configVars, response, envVars, fleetVars, poolVars, bots, queue, jobs, users,
                   processing, concurrency, running, microtasks, nextId,
                   firstRun, lastSend>>

\* csgoClient emits connectedToGC.
ConnectedToGC(b) ==
    /\ Idle
    /\ bots[b].phase = "on" /\ bots[b].gcBound /\ ~bots[b].ready
    /\ SetC(setReady(FleetState, b, TRUE))
    /\ UNCHANGED <<configVars, response, envVars, queueVars>>

\* csgoClient emits disconnectedFromGC.
DisconnectedFromGC(b) ==
    /\ Idle
    /\ bots[b].ready
    /\ faults < MaxFaults
    /\ faults' = faults + 1
    /\ SetC(setReady(FleetState, b, FALSE))
    /\ UNCHANGED <<configVars, response, timeouts, queueVars>>

\* steamClient emits loggedOn; the controller's loginSuccess listener runs.
LoggedOn(b) ==
    /\ Idle
    /\ bots[b].phase = "login"
    /\ LET c == [FleetState EXCEPT !.bots = [@ EXCEPT ![b].phase = "on"]]
       IN  SetC(IF hasPool THEN [c EXCEPT !.pool = handleLoginSuccess(@, b)] ELSE c)
    /\ UNCHANGED <<configVars, response, envVars, queueVars>>

\* steamClient emits error (or the steamGuard prompt), classified as reason;
\* the controller's loginFailed / authFailed listener runs.  At most limit
\* faults happen over a run.
SteamErrorWithin(b, reason, limit) ==
    /\ Idle
    /\ bots[b].phase \in {"login", "on"}
    /\ faults < limit
    /\ faults' = faults + 1
    /\ SetC(CASE reason = "other" ->
                    [FleetState EXCEPT !.bots = [@ EXCEPT ![b].phase = "off"]]
              [] reason = "auth" ->
                    markAccountFailed(
                        [FleetState EXCEPT !.bots = [@ EXCEPT ![b].phase = "off"]], b)
              [] OTHER -> handleBotLoginFailure(FleetState, b, reason))
    /\ UNCHANGED <<configVars, response, timeouts, queueVars>>

SteamError(b, reason) == SteamErrorWithin(b, reason, MaxFaults)

\* The same event in the runs that follow logins only.
LoginError(b, reason) == SteamErrorWithin(b, reason, MaxLoginFaults)

\* The login retry timer of handleBotLoginFailure fires.
RetryLogin(b) ==
    /\ Idle
    /\ bots[b].phase = "retry"
    /\ LET c == [FleetState EXCEPT !.bots = [@ EXCEPT ![b] =
                    [(IF @.newProxy # 0 THEN updateProxySettings(@) ELSE @)
                        EXCEPT !.newProxy = 0, !.retryTimer = 0]]]
       IN  SetC(logIn(c, b))
    /\ UNCHANGED <<configVars, response, envVars, queueVars>>

\* checkAndMaintainBotCount, from the 30 s interval or 5 s after an unready.
MaintenanceTick ==
    /\ Idle
    /\ SetC(checkAndMaintainBotCount(FleetState))
    /\ UNCHANGED <<configVars, response, envVars, queueVars>>

QueueProgress ==
    \/ ConcurrencyTick
    \/ FinallyReaction
    \/ CatchReaction
    \/ ThenReaction
    \/ \E id \in JobId : HandlerDone(id)
    \/ \E id \in JobId : QueueDelayElapsed(id)

QueueStep ==
    \/ \E ip \in Client, n \in 1..2 : AddJob(ip, n)
    \/ QueueProgress

SessionStep ==
    \/ \E b \in Bot, a \in JobId : InspectReply(b, a)
    \/ \E b \in Bot, a \in JobId : GcTimedOut(b, a)
    \/ \E b \in Bot : TtlExpired(b)
    \/ \E b \in Bot : RequestDelayElapsed(b)
    \/ \E b \in Bot : ConnectedToGC(b)
    \/ \E b \in Bot : DisconnectedFromGC(b)
    \/ \E b \in Bot : LoggedOn(b)
    \/ \E b \in Bot, reason \in Reason : SteamError(b, reason)

\* The service with the proxy pool enabled and no spare accounts (at most
\* max_online_bots logins): the maintenance interval is never started.
Init == \E logins \in 1..maxOnlineBots : InitWith(TRUE, MaxAttemptsConfig, logins)

Next ==
    \/ QueueStep
    \/ SessionStep
    \/ \E g \in Group : CooldownElapsed(g)
    \/ \E b \in Bot : RetryLogin(b)

Spec == Init /\ [][Next]_vars

\* The service with the proxy pool enabled and spare accounts.
InitSpare == InitWith(TRUE, 1, NumAccounts)

NextSpare ==
    \/ QueueStep
    \/ SessionStep
    \/ \E g \in Group : CooldownElapsed(g)
    \/ MaintenanceTick

SpecSpare == InitSpare /\ [][NextSpare]_vars

\* The service without a proxy pool (CONFIG.proxy_pool.enabled unset) and
\* without spare accounts.
\* The fleet's logins alone, with no inspect traffic: any number of the
\* configured accounts, two steamClient errors, retries and spare activation.
InitLogin == \E logins \in 1..NumAccounts : InitWith(TRUE, MaxAttemptsConfig, logins)

NextLogin ==
    \/ \E b \in Bot : LoggedOn(b)
    \/ \E b \in Bot : ConnectedToGC(b)
    \/ \E b \in Bot, reason \in Reason : LoginError(b, reason)
    \/ \E b \in Bot : RetryLogin(b)
    \/ MaintenanceTick

SpecLogin == InitLogin /\ [][NextLogin]_vars

\* The service without a pool under every pair of admission limits (0: the
\* limit is off), every submitted job going through handleJob.
InitAdmit ==
    \E maxSimultaneous \in 0..MaxLimit, maxQueueSize \in 0..MaxLimit :
        InitWithLimits(FALSE, 1, 1, maxSimultaneous, maxQueueSize)

NextAdmit ==
    \/ \E ip \in Client, n \in 1..MaxLinks : HandleJob(ip, n)
    \/ QueueProgress
    \/ SessionStep

SpecAdmit == InitAdmit /\ [][NextAdmit]_vars

\* The same service with max_attempts = 2, so that an entry whose inspect
\* fails goes back to the head of the queue once.
InitRequeue ==
    \E maxSimultaneous \in 0..MaxLimit, maxQueueSize \in 0..MaxLimit :
        InitWithLimits(FALSE, MaxAttemptsConfig, 1, maxSimultaneous, maxQueueSize)

SpecRequeue == InitRequeue /\ [][NextAdmit]_vars

\* The pool with room for two requests per proxy and all three accounts in
\* use (two sessions share the first proxy once the spare is activated), no
\* login faults: the runs in which the groups' loads differ.
InitSelect ==
    InitConfigured(TRUE, 1, NumAccounts, MaxSimultaneousConfig, MaxQueueSizeConfig,
                   MaxPerProxy)

NextSelect ==
    \/ QueueStep
    \/ \E b \in Bot, a \in JobId : InspectReply(b, a)
    \/ \E b \in Bot, a \in JobId : GcTimedOut(b, a)
    \/ \E b \in Bot : RequestDelayElapsed(b)
    \/ \E b \in Bot : ConnectedToGC(b)
    \/ \E b \in Bot : LoggedOn(b)
    \/ \E g \in Group : CooldownElapsed(g)
    \/ MaintenanceTick

SpecSelect == InitSelect /\ [][NextSelect]_vars

\* The fleet's logins under a long series of steamClient errors, three
\* accounts over two proxies with room for two sessions each: the runs in
\* which a proxy collects more than five login failures.  The errors are
\* those the pool records, one for each branch of handleLoginFailure
\* ("ratelimit" takes the branch of "proxy").
PoolReason == {"steamguard", "proxy"}

ProxyError(b, reason) == SteamErrorWithin(b, reason, MaxProxyFaults)

InitProxyFail ==
    InitConfigured(TRUE, 1, NumAccounts, MaxSimultaneousConfig, MaxQueueSizeConfig,
                   MaxPerProxy)

NextProxyFail ==
    \/ \E b \in Bot : LoggedOn(b)
    \/ \E b \in Bot, reason \in PoolReason : ProxyError(b, reason)
    \/ \E b \in Bot : RetryLogin(b)
    \/ MaintenanceTick

SpecProxyFail == InitProxyFail /\ [][NextProxyFail]_vars

\* The fleet's logins under a retry policy of four retries: the runs in which
\* a session's retry count passes 1, 2, 3 and 4.
BackoffError(b, reason) == SteamErrorWithin(b, reason, MaxBackoffFaults)

InitBackoff ==
    \E logins \in 1..NumAccounts :
        InitPolicy(TRUE, MaxAttemptsConfig, logins, MaxSimultaneousConfig,
                   MaxQueueSizeConfig, MaxPerProxy, MaxRetriesBackoff)

NextBackoff ==
    \/ \E b \in Bot : LoggedOn(b)
    \/ \E b \in Bot, reason \in Reason : BackoffError(b, reason)
    \/ \E b \in Bot : RetryLogin(b)
    \/ MaintenanceTick

SpecBackoff == InitBackoff /\ [][NextBackoff]_vars

InitNoPool == \E attempts \in 0..1 : InitWith(FALSE, attempts, maxOnlineBots)

NextNoPool == QueueStep \/ SessionStep

SpecNoPool == InitNoPool /\ [][NextNoPool]_vars

\* The runs without a pool in which the event loop keeps running what is
\* pending: a promise reaction that is queued runs, a timer that is armed fires.
SpecNoPoolFair == SpecNoPool /\ WF_vars(NextNoPool)

(***************************************************************************)
(* Properties                                                              *)
(***************************************************************************)
\* The catch reaction of checkQueue is about to run for entry id.
CatchPending(id) ==
    /\ microtasks # <<>>
    /\ Head(microtasks).kind = "catch"
    /\ Head(microtasks).id = id

\* The last then reaction of checkQueue is about to run for entry id.
ThenPending(id) ==
    /\ microtasks # <<>>
    /\ Head(microtasks).kind = "then"
    /\ Head(microtasks).id = id

\* Sessions of group g with an inspect sent and not yet settled.
InFlight(g) ==
    {k \in 1..Len(groups[g].bots) : bots[groups[g].bots[k]].currentRequest # 0}

\* C1, as stated: in every reachable state, a session that is busy has its
\* currentRequest set.
C1_BusyImpliesCurrentRequest ==
    \A b \in Bot : bots[b].busy => bots[b].currentRequest # 0

\* C1, amended: a session that is busy either has its currentRequest set or
\* is in the post-reply delay (its busy-clear timer is pending); the reply
\* listener clears currentRequest and leaves busy to that timer.
C1_BusyImpliesRequestOrDelay ==
    \A b \in Bot :
        bots[b].busy => (bots[b].currentRequest # 0 \/ bots[b].delayTimer # 0)

\* A session in its post-reply delay: busy, no currentRequest.
C1_Witness ==
    \E b \in Bot :
        bots[b].busy /\ bots[b].currentRequest = 0 /\ bots[b].delayTimer # 0

\* C2: for every proxy group, 0 <= activeRequests <= maxRequestsPerProxy in
\* every reachable state.
C2_ActiveRequestsInRange ==
    \A g \in Group :
        /\ groups[g].activeRequests >= 0
        /\ groups[g].activeRequests <= maxRequestsPerProxy

\* A group at its limit holds a free ready session while an entry waits.
C2_Witness ==
    /\ Idle
    /\ queue # <<>>
    /\ \E g \in Group :
          /\ groups[g].activeRequests = maxRequestsPerProxy
          /\ ~groups[g].cooling
          /\ \E k \in 1..Len(groups[g].bots) : IsAvailable(bots[groups[g].bots[k]])

\* C3, as stated, read at the states between event-loop tasks: the sum of
\* activeRequests over all proxy groups is at most the number of busy
\* sessions.
C3_ActiveAtMostBusy ==
    Idle => SumSeq([g \in Group |-> groups[g].activeRequests])
                <= Cardinality({b \in Bot : bots[b].busy})

\* C4, as stated: processing <= concurrency in every reachable state.
C4_ProcessingAtMostConcurrency == processing <= concurrency

\* C4, amended: processing exceeds concurrency only because the 50 ms
\* recomputation lowered concurrency under the entries already being
\* processed; no step raises processing above concurrency.
C4_NoDispatchAboveConcurrency ==
    [][processing' > concurrency' =>
          /\ processing' <= processing
          /\ (concurrency' < concurrency \/ processing > concurrency)]_vars

\* More entries are being processed than concurrency allows.
C4_Witness == processing > concurrency /\ Idle

\* C5, as stated: every entry that reached a terminal outcome (handler
\* success or 'job failed') has attempts <= max_attempts.
C5_AttemptsWithinMax ==
    \A id \in JobId :
        jobs[id].status \in {"io", "spacing", "done", "failed"}
            => jobs[id].attempts <= max_attempts

\* C6: the catch reaction leaves attempts unchanged for NoBotsAvailable and
\* increments it by exactly one for any other error.
C6_AttemptsCounting ==
    [][\A id \in JobId :
          CatchPending(id) =>
              jobs'[id].attempts =
                  jobs[id].attempts
                      + (IF Head(microtasks).err = NoBotsAvailable THEN 0 ELSE 1)]_vars

\* An entry was rejected with NoBotsAvailable and put back: it has run, it is
\* queued again and it still has zero attempts.
C6_Witness ==
    \E id \in JobId :
        /\ ThenPending(id)
        /\ jobs[id].status = "queued"
        /\ jobs[id].attempts = 0
        /\ \E k \in 1..Len(firstRun) : firstRun[k] = id

\* C7: when a dispatched entry is rejected with an error other than
\* NoBotsAvailable and its attempts stay below max_attempts, it is put back
\* at the head of the queue, ahead of every waiting entry, with attempts
\* incremented by one.
C7_RetryAtHead ==
    [][\A id \in JobId :
          (/\ CatchPending(id)
           /\ Head(microtasks).err # NoBotsAvailable
           /\ jobs[id].attempts + 1 < max_attempts)
          => /\ queue' = <<id>> \o queue
             /\ jobs'[id].attempts = jobs[id].attempts + 1]_vars

\* The queue held [Y] while X was dispatched; X was rejected and the queue is
\* [X, Y] with X.attempts = 1.
C7_Witness ==
    \E x, y \in JobId :
        /\ x # y
        /\ ThenPending(x)
        /\ queue = <<x, y>>
        /\ jobs[x].attempts = 1
        /\ jobs[y].attempts = 0

\* C8: first handler invocations happen in enqueue order (entry ids are
\* assigned in the order addJob pushes them, so the history of first
\* invocations is increasing).
C8_FirstRunsInEnqueueOrder ==
    \A i, j \in 1..Len(firstRun) : i < j => firstRun[i] < firstRun[j]

\* Both entries have had their first invocation and the first one was
\* rejected and retried.
C8_Witness ==
    /\ Len(firstRun) = MaxJobs
    /\ jobs[1].attempts >= 1
    /\ jobs[1].status \in {"queued", "handling"}

\* C9: sendFloatRequest is only invoked on a session that is not busy, and a
\* session stays busy for as long as its post-reply delay timer is pending,
\* so it is not selected before the delay has elapsed.
C9_SerializedByBusy ==
    \A b \in Bot :
        /\ lastSend[b] \in {"none", "idle"}
        /\ bots[b].delayTimer # 0 => bots[b].busy

\* An entry waits in the queue while a session that has replied is in its
\* delay.
C9_Witness ==
    /\ Idle
    /\ queue # <<>>
    /\ \E b \in Bot :
          /\ lastSend[b] = "idle"
          /\ bots[b].ready
          /\ bots[b].delayTimer # 0

\* C10, as stated: for every proxy group, the number of inspects in flight
\* on sessions bound to that group never exceeds maxRequestsPerProxy.
C10_InFlightWithinLimit ==
    \A g \in Group : Cardinality(InFlight(g)) <= maxRequestsPerProxy

\* C11, as stated: a step that takes an account off spareAccounts
\* (trySpareAccount) only queues it: the account is on spareAccountQueue
\* afterwards and no session was created or logged in by that step.
C11_TrySpareOnlyQueues ==
    [][Len(spareAccounts') < Len(spareAccounts)
          => /\ fleet' = fleet
             /\ Len(spareAccountQueue') > Len(spareAccountQueue)]_vars


\* C12: the number of accounts still on spareAccounts plus the number of
\* sessions created (the initial activations and the spares activated since)
\* is the same in every reachable state: every configured account is either
\* a waiting spare or a session of the fleet.
C12_AccountsConserved ==
    Len(spareAccounts) + Len(fleet) = NumAccounts

\* The spare has been activated after an account was marked failed.
C12_Witness ==
    /\ spareAccounts = <<>>
    /\ Len(fleet) = NumAccounts
    /\ failedAccounts # {}


\* Another group can take session b: it is not b's group, not marked failed
\* and bound to fewer than maxRequestsPerProxy sessions.
EligibleGroups(b) ==
    {g \in Group : /\ g # botToGroupMap[b]
                   /\ g \notin failedProxies
                   /\ Len(groups[g].bots) < maxRequestsPerProxy}

\* The effect the claim gives to a steamguard failure of b: b is bound to
\* another group, its retry count and the old group's loginFailures are one
\* higher, and a login retry on the new group's proxy is armed for 15 s.
SteamGuardRebound(b) ==
    /\ botToGroupMap'[b] \in Group \ {botToGroupMap[b]}
    /\ botRetryCount'[b] = botRetryCount[b] + 1
    /\ groups'[botToGroupMap[b]].loginFailures
           = groups[botToGroupMap[b]].loginFailures + 1
    /\ bots'[b].phase = "retry"
    /\ bots'[b].retryTimer = 15000
    /\ bots'[b].newProxy = botToGroupMap'[b]

SameRate(r1, r2) == r1[1] * r2[2] = r2[1] * r1[2]

\* C14, as stated: a login failure with reason steamguard leaves every
\* group's successRate as it was and adds no group to failedProxies.
C14_SteamGuardNotCharged ==
    [][\A b \in Bot :
          LoginError(b, "steamguard")
          => /\ \A g \in Group :
                    SameRate(getSuccessRate(groups'[g]), getSuccessRate(groups[g]))
             /\ failedProxies' = failedProxies]_vars


\* The places where session b stands in the groups' bound-session lists.
Bindings(b) ==
    {p \in Group \X (1..NumAccounts) :
        p[2] \in DOMAIN groups[p[1]].bots /\ groups[p[1]].bots[p[2]] = b}

\* C15: every session stands in at most one proxy group's bound-session
\* list (and at most once in it), whatever distributeBots and reassignBot
\* calls have happened.
C15_AtMostOneGroup ==
    \A b \in Bot : Cardinality(Bindings(b)) <= 1

\* The spare was activated (distributeBots ran again over the whole fleet)
\* and reassignBot ran for a session afterwards or before.
C15_Witness ==
    /\ Len(fleet) = NumAccounts
    /\ \E b \in Bot : botRetryCount[b] >= 1
    /\ \E g \in Group : Len(groups[g].bots) >= 2


\* The entries of client ip that wait in the queue or are being handled and
\* have neither succeeded nor failed for good.
Unresolved(ip) ==
    {id \in JobId : jobs[id].ip = ip /\ jobs[id].status \in {"queued", "handling", "io"}}

\* C16: users[ip] is the number of the client's entries that are waiting or
\* being handled and not yet resolved: it goes up by one per entry added and
\* down by one when the entry's handler succeeds or the entry fails for
\* good, and a requeue (after NoBotsAvailable or any other rejection) leaves
\* it alone.
C16_UsersCountsUnresolved ==
    /\ \A ip \in Client : users[ip] = Cardinality(Unresolved(ip))
    /\ \A id \in JobId : jobs[id].status = "queued" <=> (\E k \in 1..Len(queue) : queue[k] = id)

\* An entry was requeued after NoBotsAvailable (it has run, waits again and
\* no attempt was counted) while another entry of the client is resolved.
C16_Witness ==
    \E id, other \in JobId :
        /\ jobs[id].status = "queued"
        /\ jobs[id].attempts = 0
        /\ \E k \in 1..Len(firstRun) : firstRun[k] = id
        /\ jobs[other].status \in {"spacing", "done", "failed"}
        /\ jobs[other].ip = jobs[id].ip
        /\ users[jobs[id].ip] = 1


\* The answer the claim gives to a job of client ip with n unresolved links.
AdmissionByRule(ip, n) ==
    IF ~(\E b \in Bot : InFleet(fleet, b) /\ bots[b].ready) THEN "SteamOffline"
    ELSE IF max_simultaneous_requests > 0 /\ users[ip] + n > max_simultaneous_requests
    THEN "MaxRequests"
    ELSE IF max_queue_size > 0 /\ Len(queue) + n > max_queue_size
    THEN "MaxQueueSize"
    ELSE "addJob"

\* C17: a job with unresolved links is answered SteamOffline if no session
\* is ready, else MaxRequests if the client's quota is on and exceeded, else
\* MaxQueueSize if the queue limit is on and exceeded, else each of its
\* links becomes a queue entry; a rejected job leaves the queue and users
\* as they were.
C17_AdmissionOrder ==
    [][\A ip \in Client, n \in 1..MaxLinks :
          HandleJob(ip, n)
          => /\ response' = AdmissionByRule(ip, n)
             /\ response' # "addJob" => (queue' = queue /\ users' = users /\ jobs' = jobs)
             /\ response' = "addJob"
                   => \A id \in (nextId + 1)..(nextId + n) :
                         /\ jobs[id].status = "new"
                         /\ jobs'[id].status # "new"
                         /\ jobs'[id].ip = ip]_vars

\* A job was turned away for the queue size while the client's quota was on
\* and not exceeded, and an earlier job is in the queue.
C17_Witness ==
    /\ response = "MaxQueueSize"
    /\ max_simultaneous_requests > 0
    /\ Len(queue) > 0
    /\ \E b \in Bot : bots[b].ready


\* C18, as stated: whatever the queue size and the number of unresolved
\* links, a job that passes the queue-size check under the configured
\* max_queue_size passes it under every larger value.
C18_AdmissionMonotone ==
    \A r \in 1..MaxLinks, m2 \in 0..(MaxLimit + 1) :
        (m2 > max_queue_size /\ QueueSizeAccepts(Len(queue), r, max_queue_size))
        => QueueSizeAccepts(Len(queue), r, m2)

\* C18, amended: the same when the configured limit is on
\* (max_queue_size >= 1); the value 0 turns the check off and accepts every
\* job, so no larger value can accept more.
C18_AdmissionMonotoneWhenOn ==
    \A r \in 1..MaxLinks, m2 \in 0..(MaxLimit + 1) :
        (/\ max_queue_size >= 1
         /\ m2 > max_queue_size
         /\ QueueSizeAccepts(Len(queue), r, max_queue_size))
        => QueueSizeAccepts(Len(queue), r, m2)

\* Under a limit that is on, a job was accepted and an entry waits in the
\* queue, which a further one-link job would still fit.
C18_Witness ==
    /\ max_queue_size >= 1
    /\ response = "addJob"
    /\ Len(queue) >= 1
    /\ QueueSizeAccepts(Len(queue), 1, max_queue_size)


\* C19, as stated, in its safety part: whenever the pool answers a
\* loginFailed event of a session with shouldRetry = true, with or without a
\* new proxy, the supervisor arms the retry timer whose callback applies the
\* new proxy (when there is one) and re-issues logIn.  A session with no
\* such timer is never logged in again.
C19_RetryDecisionHonoured ==
    [][\A b \in Bot, reason \in {"steamguard", "proxy", "ratelimit"} :
          (/\ LoginError(b, reason)
           /\ handleLoginFailure(PoolState, b, reason).shouldRetry)
          => /\ bots'[b].phase = "retry"
             /\ bots'[b].newProxy = handleLoginFailure(PoolState, b, reason).newProxy]_vars


\* C20, as stated: a session the supervisor stops retrying (after authFailed,
\* or after loginFailed when the pool's decision is shouldRetry = false) has
\* its account in failedAccounts when the failure's handler returns.
C20_StoppedMeansFailed ==
    [][\A b \in Bot, reason \in {"steamguard", "proxy", "ratelimit", "auth"} :
          (/\ LoginError(b, reason)
           /\ \/ reason = "auth"
              \/ ~handleLoginFailure(PoolState, b, reason).shouldRetry)
          => b \in failedAccounts']_vars


\* C21, as stated: on a loginFailed event handleLoginFailure answers
\* shouldRetry = false exactly when the retry policy is off or the session's
\* retry count has reached maxRetries; otherwise it answers shouldRetry =
\* true and the session's retry count is one higher.
C21_RetryDecisionByCount ==
    [][\A b \in Bot, reason \in {"steamguard", "proxy", "ratelimit"} :
          LoginError(b, reason)
          => LET decision == handleLoginFailure(PoolState, b, reason)
             IN  /\ ~decision.shouldRetry
                       <=> (~retryEnabled \/ botRetryCount[b] >= maxRetries)
                 /\ decision.shouldRetry
                       => botRetryCount'[b] = botRetryCount[b] + 1]_vars


\* C22, as stated: the connectedToGC, disconnectedFromGC and inspect
\* listeners of every session that is logging in or logged on are attached
\* to the session's current game-coordinator client, also after
\* updateProxySettings has recreated the transport, so that a GC connection
\* after the next successful login sets ready.
C22_ListenersOnCurrentClient ==
    \A b \in Bot : bots[b].phase \in {"login", "on"} => bots[b].gcBound


\* The drain condition of checkQueue in the state after a step.
CanDrainAfter ==
    /\ running'
    /\ queue' # <<>>
    /\ processing' < concurrency'
    /\ (~hasPool \/ canAcceptMoreRequests(groups', bots'))

\* C23, as stated: when a checkQueue call returns (at the end of addJob, of
\* the 50 ms concurrency interval when it raised concurrency, and of the
\* last then reaction of a dispatch), the queue is not running, or it is
\* empty, or processing has reached concurrency, or the pool accepts no more
\* requests.
C23_CheckQueueDrains ==
    [][(\/ \E ip \in Client, n \in 1..2 : AddJob(ip, n)
        \/ ThenReaction
        \/ \E id \in JobId : QueueDelayElapsed(id)
        \/ (ConcurrencyTick /\ concurrency' > concurrency))
       => ~CanDrainAfter]_vars


\* C24, as stated: the release that follows an inspect that failed (TTL
\* expiry, GC inspect timeout, session not ready) raises the failures
\* counter of the session's group by one, and the release after a
\* successful inspect leaves every failures counter as it was.
C24_ReleaseCountsFailures ==
    [][FinallyReaction
          => LET m == Head(microtasks)
                 g == botToGroupMap[m.bot]
             IN  IF m.err # "" /\ g # 0
                 THEN groups'[g].failures = groups[g].failures + 1
                 ELSE \A h \in Group : groups'[h].failures = groups[h].failures]_vars


\* Session b is selected for an inspect in this step.
Selected(b) == \E id \in JobId : jobs[id].bot # b /\ jobs'[id].bot = b

Admissible(g) ==
    groups[g].activeRequests < maxRequestsPerProxy /\ ~groups[g].cooling

\* Group g has a bound session that is ready and not busy.
HasAvailable(g) ==
    \E k \in 1..Len(groups[g].bots) :
        bots[groups[g].bots[k]].ready /\ ~bots[groups[g].bots[k]].busy

\* load(g) <= load(h) and, when equal, g is not later than h in iteration
\* order (load = activeRequests / max(1, |bots|)).
FirstLeastLoaded(g, h) ==
    LET lg == groups[g].activeRequests * Max(1, Len(groups[h].bots))
        lh == groups[h].activeRequests * Max(1, Len(groups[g].bots))
    IN  lg < lh \/ (lg = lh /\ g <= h)

\* The entries whose handler is invoked in this step.
Dispatched == {id \in JobId : jobs[id].status # "handling" /\ jobs'[id].status = "handling"}

\* C26, as stated: a call of getAvailableBot (one per dispatched entry)
\* returns a session iff some admissible group has an available session, and
\* the session's group is the least loaded of the admissible groups, the
\* earliest in iteration order among equals.
C26_LeastLoadedOfAdmissible ==
    [][\A id \in JobId :
          Dispatched = {id}
          => LET b == jobs'[id].bot
             IN  /\ b # 0 <=> (\E g \in Group : Admissible(g) /\ HasAvailable(g))
                 /\ b # 0 => /\ Admissible(botToGroupMap[b])
                             /\ \A h \in Group :
                                   Admissible(h) => FirstLeastLoaded(botToGroupMap[b], h)]_vars

\* C26, amended: the same, the session's group being the least loaded of the
\* admissible groups that have an available session; the session is the
\* first available one in that group's list.
C26_LeastLoadedOfServing ==
    [][\A id \in JobId :
          Dispatched = {id}
          => LET b == jobs'[id].bot
             IN  /\ b # 0 <=> (\E g \in Group : Admissible(g) /\ HasAvailable(g))
                 /\ b # 0 => /\ Admissible(botToGroupMap[b])
                             /\ \A h \in Group :
                                   (Admissible(h) /\ HasAvailable(h))
                                   => FirstLeastLoaded(botToGroupMap[b], h)
                             /\ b = GroupGetAvailableBot(groups[botToGroupMap[b]], bots)]_vars

\* The first entry went to the first group and the second entry to the second
\* group, while the first group holds two sessions, one of them ready and
\* never used, and one active request.
C26_Witness ==
    /\ firstRun = <<1, 2>>
    /\ jobs[1].bot # 0 /\ botToGroupMap[jobs[1].bot] = 1
    /\ jobs[2].bot # 0 /\ botToGroupMap[jobs[2].bot] = 2
    /\ jobs[1].attempts = 0
    /\ Len(groups[1].bots) = 2
    /\ groups[1].activeRequests = 1
    /\ \E k \in 1..2 : /\ IsAvailable(bots[groups[1].bots[k]])
                       /\ lastSend[groups[1].bots[k]] = "none"

\* The group reassignBot returned in the handleLoginFailure call of this
\* error (0: it was not called or it returned null).
ReassignedTo(b, reason) == handleLoginFailure(PoolState, b, reason).newProxy

Occurrences(sq, x) == Cardinality({k \in 1..Len(sq) : sq[k] = x})

\* C27: when reassignBot returns a new group, that group is not the session's
\* previous group (the exclude set), is not in failedProxies, and had fewer
\* than maxRequestsPerProxy bound sessions before the bind; afterwards the
\* session is on the new group's list once, on no other group's list, and
\* mapped to the new group.
C27_ReassignPostconditions ==
    [][\A b \in Bot, reason \in PoolReason :
          (ProxyError(b, reason) /\ ReassignedTo(b, reason) # 0) =>
              LET new == ReassignedTo(b, reason)
              IN  /\ new # botToGroupMap[b]
                  /\ excludeFailed => new \notin failedProxies'
                  /\ Len(groups[new].bots) < maxRequestsPerProxy
                  /\ botToGroupMap'[b] = new
                  /\ \A g \in Group :
                        Occurrences(groups'[g].bots, b) = IF g = new THEN 1 ELSE 0]_vars

\* A session waits for its retry on the group it was rebound to, while the
\* other group is marked failed.
C27_Witness ==
    \E b \in Bot :
        /\ bots[b].phase = "retry"
        /\ bots[b].newProxy # 0
        /\ botToGroupMap[b] = bots[b].newProxy
        /\ Occurrences(groups[bots[b].newProxy].bots, b) = 1
        /\ failedProxies # {}
        /\ bots[b].newProxy \notin failedProxies

\* The group's counters after one more failure satisfy the marking rule:
\* loginFailures > 5 and successfulLogins / total < 0.3.
MarkedBy(f, s) == f > 5 /\ 10 * s < 3 * (s + f)

\* C28: a login failure recorded on a group counts it and puts the group
\* into failedProxies exactly when the counted loginFailures exceed 5 and
\* the success rate is below 0.3; no other group's membership changes.
C28_MarkedFailedExactly ==
    [][\A b \in Bot, reason \in PoolReason :
          (ProxyError(b, reason) /\ botToGroupMap[b] # 0) =>
              LET g == botToGroupMap[b]
                  f == groups[g].loginFailures + 1
                  s == groups[g].successfulLogins
              IN  /\ groups'[g].loginFailures = f
                  /\ groups'[g].successfulLogins = s
                  /\ failedProxies' =
                        failedProxies \cup (IF MarkedBy(f, s) THEN {g} ELSE {})]_vars

\* A group was marked failed: it holds more than five failures at a success
\* rate below 0.3.
C28_Witness ==
    \E g \in failedProxies :
        MarkedBy(groups[g].loginFailures, groups[g].successfulLogins)

\* A group with more than five failures at a success rate of 0.3 or more,
\* left unmarked.
UnmarkedAboveFive ==
    \E g \in Group :
        /\ groups[g].loginFailures > 5
        /\ ~MarkedBy(groups[g].loginFailures, groups[g].successfulLogins)
        /\ g \notin failedProxies

C30_ReadyEventTracksFleet ==
    readyEvent <=> hasBotOnline(fleet, bots)

\* The fleet was ready (a session took a request) and has emitted unready:
\* that session lost the game coordinator and no other session is ready.
C30_Witness ==
    /\ ~readyEvent
    /\ \E b \in Bot : bots[b].busy /\ ~bots[b].ready

\* The TTL timer of session b is armed for the inspect that is still pending
\* on it.
TtlBelongsToPending(b) ==
    bots[b].ttlTimeout =>
        /\ bots[b].busy
        /\ bots[b].currentRequest # 0
        /\ bots[b].resolve = bots[b].currentRequest

\* C31: when the TTL timer fires before a reply, the pending promise is
\* rejected with 'ttl exceeded', currentRequest is cleared and busy becomes
\* false; a reply or a GC timeout that settles the inspect cancels the timer.
\* An armed timer therefore always belongs to the inspect still pending on
\* its session, and an inspect is only sent on a session with no timer
\* armed: no timer acts during a later inspect.
C31_TtlTimerOwnInspect ==
    /\ [](\A b \in Bot : TtlBelongsToPending(b))
    /\ [][\A b \in Bot :
            /\ TtlExpired(b) =>
                  /\ ~bots'[b].busy
                  /\ bots'[b].currentRequest = 0
                  /\ ~bots'[b].ttlTimeout
                  /\ microtasks' = Append(microtasks,
                        Reaction("finally", bots[b].currentRequest, b, TtlExceeded))
            /\ (bots[b].currentRequest # 0 /\ bots'[b].currentRequest = 0) =>
                  ~bots'[b].ttlTimeout
            /\ (bots'[b].currentRequest # 0
                /\ bots'[b].currentRequest # bots[b].currentRequest) =>
                  ~bots[b].ttlTimeout /\ bots'[b].ttlTimeout]_vars

\* A TTL timer has fired: the rejection 'ttl exceeded' is on its way to the
\* queue and the session is free again.
C31_Witness ==
    \E k \in 1..Len(microtasks) :
        /\ microtasks[k].kind = "finally"
        /\ microtasks[k].err = TtlExceeded
        /\ ~bots[microtasks[k].bot].busy
        /\ bots[microtasks[k].bot].currentRequest = 0

\* The delay the spec gives for a retry, in ms, by reason and retry count.
ExpectedRetryDelay(reason, retry, policyDelay) ==
    IF reason = "steamguard" THEN 15000
    ELSE IF reason = "proxy" THEN 10000
    ELSE IF reason = "ratelimit"
    THEN (IF retry = 1 THEN 30000 ELSE IF retry = 2 THEN 60000 ELSE 120000)
    ELSE policyDelay

\* C32: the login retry timer is armed with 15 s for steamguard, 10 s for
\* proxy, 30 s, 60 s, 120 s and never more for the first, second, third and
\* later retries after ratelimit, and the policy's retry delay for any other
\* reason.
C32_RetryDelayByReason ==
    /\ [][\A b \in Bot, reason \in Reason :
            (BackoffError(b, reason) /\ bots'[b].phase = "retry") =>
                bots'[b].retryTimer =
                    ExpectedRetryDelay(reason, botRetryCount'[b], retryDelay)]_vars
    /\ [](\A reason \in Reason \cup {"unknown"}, retry \in 1..MaxRetriesBackoff,
            policyDelay \in {retryDelay, 1000} :
              LoginRetryDelay(reason, [retryDelay |-> policyDelay, retryCount |-> retry])
                  = ExpectedRetryDelay(reason, retry, policyDelay))

\* A session waits for its fourth retry after a rate limit: the capped delay.
C32_Witness ==
    \E b \in Bot :
        /\ bots[b].phase = "retry"
        /\ botRetryCount[b] = 4
        /\ bots[b].retryTimer = 120000

\* C33: botToGroupMap and the groups' lists of bound sessions agree: a
\* session is mapped to group g if and only if it is on g's list.
C33_MapAgreesWithLists ==
    \A b \in Bot, g \in Group :
        botToGroupMap[b] = g <=> Occurrences(groups[g].bots, b) > 0

\* No inspect is unsettled: no entry is with a session and no reaction of a
\* settled inspect still waits to run its release.
NoInspectUnsettled ==
    /\ microtasks = <<>>
    /\ \A id \in JobId : jobs[id].status # "handling"

\* C34: whenever no inspect is unsettled, every group's activeRequests is 0.
C34_ReleasedOnSameGroup ==
    NoInspectUnsettled => \A g \in Group : groups[g].activeRequests = 0

\* C35, the part on requeues: no entry is requeued forever, i.e. the chain of
\* promise reactions that checkQueue starts always comes to an end and the
\* event loop gets back to its timers.
C35_NoEndlessRequeue == []<>(microtasks = <<>>)


\* C36: in every reachable state the number of ready sessions is at most
\* maxOnlineBots.
C36_ReadyWithinTarget == getReadyAmount(fleet, bots) <= maxOnlineBots


\* More sessions are ready than the target although no steamClient error
\* has happened: the spare was activated while an initial login was under way.
OverTargetWithoutError ==
    /\ getReadyAmount(fleet, bots) > maxOnlineBots
    /\ faults = 0


\* C37: with a proxy pool, no handler invocation made by checkQueue is
\* rejected with NoBotsAvailable: no catch reaction ever carries that error.
C37_DispatchObtainsSession ==
    hasPool => \A k \in 1..Len(microtasks) : microtasks[k].err # NoBotsAvailable


\* An entry was dispatched to a session of the pool while another entry is
\* held back in the queue.
C37_Witness ==
    /\ hasPool
    /\ queue # <<>>
    /\ \E id \in JobId, b \in Bot : /\ jobs[id].status = "handling"
                                   /\ bots[b].currentRequest = id


\* C38: with max_queue_size = Q > 0 the queue never holds more than Q
\* entries.
C38_QueueWithinLimit ==
    max_queue_size > 0 => Len(queue) <= max_queue_size

\* The same between two tasks of the event loop only, when no promise
\* reaction is pending.
QueueWithinLimitAtRest ==
    (max_queue_size > 0 /\ microtasks = <<>>) => Len(queue) <= max_queue_size


\* C39: with max_simultaneous_requests = M > 0, every client's users[ip]
\* stays between 0 and M.
C39_UsersWithinQuota ==
    max_simultaneous_requests > 0 =>
        \A ip \in Client : users[ip] >= 0 /\ users[ip] <= max_simultaneous_requests

\* The client holds its full quota, one of its entries has failed once and
\* waits again, and its last submission was refused with MaxRequests.
C39_Witness ==
    /\ max_simultaneous_requests > 0
    /\ response = "MaxRequests"
    /\ \E ip \in Client, id \in JobId :
          /\ users[ip] = max_simultaneous_requests
          /\ jobs[id].ip = ip
          /\ jobs[id].status = "queued"
          /\ jobs[id].attempts = 1


\* Entry id has been answered with a success payload (the handler called
\* setResponse) / with 'job failed'.
Succeeded(id) == jobs[id].status \in {"spacing", "done"}

Failed(id) == jobs[id].status = "failed"

\* An answered entry is out of the scheduler's hands: it is not in the queue,
\* and no settlement of an inspect is pending for it.
OutOfHands(id) ==
    /\ \A k \in 1..Len(queue) : queue[k] # id
    /\ \A k \in 1..Len(microtasks) :
          microtasks[k].id = id => microtasks[k].kind = "then"

\* C40: an entry gets at most one response: once it has succeeded it stays
\* succeeded, once it has failed it stays failed, and an answered entry is
\* never in the queue or dispatched again.
C40_OneResponsePerEntry ==
    /\ [](\A id \in JobId : (Succeeded(id) \/ Failed(id)) => OutOfHands(id))
    /\ [][\A id \in JobId : /\ Succeeded(id) => Succeeded(id)'
                            /\ Failed(id) => Failed(id)']_vars

\* One entry has failed for good after a requeue, another has succeeded.
C40_Witness ==
    \E id, other \in JobId :
        /\ jobs[id].status = "failed"
        /\ jobs[id].attempts = 2
        /\ jobs[other].status = "done"


=============================================================================
